---- MODULE Spec2Model ----
(***************************************************************************)
(* Chart-volume forecasting: the Forecast Engine of Run_Forecast.py        *)
(* (month classification, the standard and the new-project-year policy,    *)
(* TOTAL recomputation, column ordering, main's early returns) and the     *)
(* Aggregator of Run_Actuals.py that produces its input artifact.          *)
(*                                                                         *)
(* A period label "YYYY-MM" is the triple <<year, tens digit, units        *)
(* digit>> of the formatted string, compared the way Python compares the   *)
(* strings.  A cell is a tagged pair: <<"num", n>>, <<"nan", 0>> (an empty *)
(* cell as pandas reads it) or <<"str", 0>> (the empty string "").         *)
(* Floating-point products and quotients are computed as exact rationals.  *)
(***************************************************************************)
EXTENDS Integers, Sequences, FiniteSets, TLC

VARIABLES
    run,              \* number of the forecast run being executed
    pc,               \* "scan" (Aggregator), then main: "start", "loop", "done"
    state_df,         \* the matrix main reads from input_file
    all_months,       \* identify_months_to_forecast: sorted period columns
    actual_months,    \* ... periods with a present, non-zero TOTAL
    forecast_months,  \* ... periods to forecast
    latest_actual,    \* ... last actual period, NoMonth for None
    forecasted_df,    \* the working copy calculate_forecasts fills
    idx,              \* position in sorted(forecast_months)
    written,          \* cells assigned through forecasted_df.at in this run
    log,              \* <<period, "special" | "standard" | "skipping">> lines logged in this run
    result,           \* return value of main: "none", "True", "False"
    output_file,      \* the matrix in Market_Volume_Forecast.xlsx, or NoFrame
    source_files,     \* Aggregator: the files still to be listed, in listing order
    state_data,       \* Aggregator: state -> month -> count or None
    mem_ref,          \* Aggregator: the membership reference file
    actuals_result,   \* return value of the Aggregator's main
    scanned           \* Aggregator: the files the listing loop has gone through

aggVars == <<source_files, state_data, mem_ref, actuals_result, scanned>>

vars == <<run, pc, state_df, all_months, actual_months, forecast_months,
          latest_actual, forecasted_df, idx, written, log, result, output_file,
          source_files, state_data, mem_ref, actuals_result, scanned>>

(***************************************************************************)
(* Bounds of the checked inputs.                                           *)
(***************************************************************************)
MaxCount == 3
MaxMembership == 2
MaxRuns == 2
MaxFiles == 2

(***************************************************************************)
(* Values, labels and frames.                                              *)
(***************************************************************************)
NaN == <<"nan", 0>>
Blank == <<"str", 0>>
Num(n) == <<"num", n>>
NoMonth == <<0, 0, 0>>
NoFrame == [columns |-> <<>>, rows |-> {}, cells |-> <<>>]

MonthsPerYear == 12

get_previous_month(year, month) ==
    IF month = 1 THEN <<year - 1, MonthsPerYear>> ELSE <<year, month - 1>>

get_year_month_string(year, month) == <<year, month \div 10, month % 10>>

\* forecast_year, forecast_month_num = map(int, forecast_month.split('-'))
ParseMonth(label) == <<label[1], label[2] * 10 + label[3]>>

\* Python's < on two "YYYY-MM" strings
StrLess(a, b) ==
    \/ a[1] < b[1]
    \/ a[1] = b[1] /\ a[2] < b[2]
    \/ a[1] = b[1] /\ a[2] = b[2] /\ a[3] < b[3]

SortedMonths(seq) == SortSeq(seq, StrLess)

Range(seq) == {seq[i] : i \in 1..Len(seq)}

\* months counted from year 0, and back to "YYYY-MM"
MonthIndex(label) == label[1] * 12 + label[2] * 10 + label[3] - 1
LabelOf(i) == <<i \div 12, ((i % 12) + 1) \div 10, ((i % 12) + 1) % 10>>

SPECIAL_FORECAST_MONTH == <<2025, 0, 8>>
prev_year_same_month == <<2024, 0, 8>>

ReservedTotalOnly == {"TOTAL"}
Reserved == {"TOTAL", "MEMBERSHIP"}
OrdinaryRows(df) == df.rows \ Reserved

pd_isna(v) == v[1] = "nan"

\* row[month]: the cell of a row in a period column
At(df, r, month) == IF month \in DOMAIN df.cells[r] THEN df.cells[r][month] ELSE NaN

\* pd.to_numeric(column, errors='coerce').fillna(0), cell by cell
ToNumericNoFill(v) == IF v[1] = "num" THEN v ELSE NaN
ToNumeric(v) == IF v[1] = "num" THEN v ELSE Num(0)

(***************************************************************************)
(* identify_months_to_forecast                                             *)
(***************************************************************************)
NeedsForecastNoZero(value) == pd_isna(value) \/ value = Blank
NeedsForecast(value) == pd_isna(value) \/ value = Blank \/ value = Num(0)

RECURSIVE SelectMonths(_, _, _)
SelectMonths(df, months, wantForecast) ==
    IF months = <<>> THEN <<>>
    ELSE LET month == Head(months)
             rest == SelectMonths(df, Tail(months), wantForecast)
         IN IF "TOTAL" \in df.rows
               /\ NeedsForecast(df.cells["TOTAL"][month]) = wantForecast
            THEN <<month>> \o rest
            ELSE rest

identify_months_to_forecast(df) ==
    LET month_columns == SortedMonths(df.columns)
        actual == SelectMonths(df, month_columns, FALSE)
        forecast == SelectMonths(df, month_columns, TRUE)
    IN [all_months |-> month_columns,
        actual_months |-> actual,
        forecast_months |-> forecast,
        latest_actual |-> IF actual # <<>> THEN actual[Len(actual)] ELSE NoMonth]

(***************************************************************************)
(* Arithmetic of calculate_forecasts.  A ratio is a pair <<a, b>> standing *)
(* for a / b with b # 0.                                                   *)
(***************************************************************************)
\* rounding with ties going up, which Python's round() does not do
RoundHalfUp(n, d) == (2 * n + d) \div (2 * d)

\* Python's round() of the rational n / d, d > 0: ties go to the even integer
Round(n, d) ==
    LET q == n \div d
        r == n - q * d
    IN IF 2 * r < d THEN q
       ELSE IF 2 * r > d THEN q + 1
       ELSE IF q % 2 = 0 THEN q ELSE q + 1

Max0(n) == IF n > 0 THEN n ELSE 0

\* n / d with the sign carried by the numerator
Norm(n, d) == IF d < 0 THEN <<0 - n, 0 - d>> ELSE <<n, d>>

\* lines 227-233: membership_ratio of the standard policy
StandardRatioDefaultZero(df, prev_month_str, prev_year_month) ==
    IF "MEMBERSHIP" \in df.rows
    THEN LET current_membership == At(df, "MEMBERSHIP", prev_month_str)
             prev_year_membership == At(df, "MEMBERSHIP", prev_year_month)
         IN IF prev_year_membership # Num(0) /\ ~pd_isna(prev_year_membership)
            THEN <<current_membership[2], prev_year_membership[2]>>
            ELSE <<0, 1>>
    ELSE <<1, 1>>
StandardRatio(df, prev_month_str, prev_year_month) ==
    IF "MEMBERSHIP" \in df.rows
    THEN LET current_membership == At(df, "MEMBERSHIP", prev_month_str)
             prev_year_membership == At(df, "MEMBERSHIP", prev_year_month)
         IN IF prev_year_membership # Num(0) /\ ~pd_isna(prev_year_membership)
            THEN <<current_membership[2], prev_year_membership[2]>>
            ELSE <<1, 1>>
    ELSE <<1, 1>>

\* lines 243-259: forecast_value of one state under the standard policy
StandardValueNoClamp(current_value, prev_year_value, prev_year_prev_month_value, ratio) ==
    LET q == Norm(current_value[2] * ratio[2]
                    + (prev_year_value[2] - prev_year_prev_month_value[2]) * ratio[1], ratio[2])
    IN Round(q[1], q[2])
StandardValueHalfUp(current_value, prev_year_value, prev_year_prev_month_value, ratio) ==
    LET q == Norm(current_value[2] * ratio[2]
                    + (prev_year_value[2] - prev_year_prev_month_value[2]) * ratio[1], ratio[2])
    IN RoundHalfUp(Max0(q[1]), q[2])
StandardValue(current_value, prev_year_value, prev_year_prev_month_value, ratio) ==
    IF pd_isna(current_value) \/ pd_isna(prev_year_value) \/ pd_isna(prev_year_prev_month_value)
    THEN 0
    ELSE LET last_year_change == prev_year_value[2] - prev_year_prev_month_value[2]
             \* current_value + last_year_change * a / b as one fraction
             q == Norm(current_value[2] * ratio[2] + last_year_change * ratio[1], ratio[2])
         IN Round(Max0(q[1]), q[2])

\* lines 157-177: membership_adjustment of the new-project-year policy;
\* (prev * (cur / prev)) / prev is cur / prev
SpecialAdjustmentGuardsNumerator(df, latest) ==
    IF "MEMBERSHIP" \in df.rows
    THEN LET current_membership == At(df, "MEMBERSHIP", latest)
             prev_year_membership == At(df, "MEMBERSHIP", prev_year_same_month)
         IN IF /\ prev_year_membership # Num(0) /\ ~pd_isna(prev_year_membership)
               /\ current_membership # Num(0) /\ ~pd_isna(current_membership)
            THEN <<current_membership[2], prev_year_membership[2]>>
            ELSE <<1, 1>>
    ELSE <<1, 1>>
SpecialAdjustment(df, latest) ==
    IF "MEMBERSHIP" \in df.rows
    THEN LET current_membership == At(df, "MEMBERSHIP", latest)
             prev_year_membership == At(df, "MEMBERSHIP", prev_year_same_month)
         IN IF prev_year_membership # Num(0) /\ ~pd_isna(prev_year_membership)
            THEN <<current_membership[2], prev_year_membership[2]>>
            ELSE <<1, 1>>
    ELSE <<1, 1>>

\* lines 185-194: forecast_value of one state under the new-project-year policy
SpecialValue(prev_year_value, adjustment) ==
    IF pd_isna(prev_year_value)
    THEN 0
    ELSE LET q == Norm(prev_year_value[2] * adjustment[1], adjustment[2])
         IN Max0(Round(q[1], q[2]))

RECURSIVE SumColumn(_, _, _)
\* state_data[forecast_month].sum(): pandas skips empty cells
SumColumn(cells, regions, month) ==
    IF regions = {} THEN 0
    ELSE LET r == CHOOSE x \in regions : TRUE
         IN (IF pd_isna(cells[r][month]) THEN 0 ELSE cells[r][month][2])
            + SumColumn(cells, regions \ {r}, month)

\* lines 201-207 and 266-272: the TOTAL row, if any, gets the column's sum
RecalculateTotalKeep(df, cells, month) == cells
RecalculateTotal(df, cells, month) ==
    IF "TOTAL" \in df.rows
    THEN [cells EXCEPT !["TOTAL"][month] = Num(SumColumn(cells, OrdinaryRows(df), month))]
    ELSE cells

\* the three reference periods of the standard policy, lines 212-218
RefPrev(label) ==
    LET ym == ParseMonth(label)
        p == get_previous_month(ym[1], ym[2])
    IN get_year_month_string(p[1], p[2])
RefSameMonthLastYear(label) ==
    LET ym == ParseMonth(label) IN get_year_month_string(ym[1] - 1, ym[2])
RefPrevOfLastYear(label) ==
    LET ym == ParseMonth(label)
        p == get_previous_month(ym[1] - 1, ym[2])
    IN get_year_month_string(p[1], p[2])

required_months(label) == {RefPrev(label), RefSameMonthLastYear(label), RefPrevOfLastYear(label)}

\* the per-state loop of the standard policy followed by the TOTAL recomputation
StandardCells(df, month, months) ==
    LET ratio == StandardRatio(df, RefPrev(month), RefSameMonthLastYear(month))
        filled == [r \in df.rows |->
                     IF r \in Reserved THEN df.cells[r]
                     ELSE [df.cells[r] EXCEPT ![month] =
                             Num(StandardValue(At(df, r, RefPrev(month)),
                                               At(df, r, RefSameMonthLastYear(month)),
                                               At(df, r, RefPrevOfLastYear(month)),
                                               ratio))]]
    IN RecalculateTotal(df, filled, month)

\* the per-state loop of the new-project-year policy followed by the TOTAL recomputation
SpecialCells(df, month, latest) ==
    LET membership_adjustment == SpecialAdjustment(df, latest)
        filled == [r \in df.rows |->
                     IF r \in Reserved THEN df.cells[r]
                     ELSE [df.cells[r] EXCEPT ![month] =
                             Num(SpecialValue(At(df, r, prev_year_same_month),
                                              membership_adjustment))]]
    IN RecalculateTotal(df, filled, month)

(***************************************************************************)
(* Input artifacts.  The forecast stage reads whatever matrix is found at  *)
(* input_file; the checked matrices have period columns drawn from Window, *)
(* the ordinary regions AL and TX, and optional TOTAL and MEMBERSHIP rows. *)
(***************************************************************************)
Window == {<<2024, 0, 8>>, <<2024, 0, 9>>, <<2025, 0, 8>>, <<2025, 0, 9>>}
WinterWindow == {<<2023, 1, 2>>, <<2024, 0, 1>>, <<2024, 1, 2>>, <<2025, 0, 1>>}
Regions == {"AL", "TX"}

TotalValues == {NaN, Blank, Num(0), Num(MaxCount)}
CountValues == {NaN, Num(1), Num(MaxCount)}
MembershipValues == {NaN, Num(1), Num(MaxMembership)}

RECURSIVE SeqOf(_)
SeqOf(S) == IF S = {} THEN <<>>
            ELSE LET x == CHOOSE y \in S : TRUE IN <<x>> \o SeqOf(S \ {x})

Reverse(seq) == [i \in 1..Len(seq) |-> seq[Len(seq) + 1 - i]]

Frame(columns, hasTotal, hasMembership, al, tx, tot, mem) ==
    [columns |-> columns,
     rows |-> Regions \cup (IF hasTotal THEN {"TOTAL"} ELSE {})
                      \cup (IF hasMembership THEN {"MEMBERSHIP"} ELSE {}),
     cells |-> [r \in Regions \cup (IF hasTotal THEN {"TOTAL"} ELSE {})
                              \cup (IF hasMembership THEN {"MEMBERSHIP"} ELSE {}) |->
                  IF r = "AL" THEN al
                  ELSE IF r = "TX" THEN tx
                  ELSE IF r = "TOTAL" THEN tot
                  ELSE mem]]

\* matrices that vary the TOTAL row and the column order
TotalInputs(df) ==
    \E cols \in (SUBSET Window) \ {{}} :
    \E hasTotal \in BOOLEAN :
    \E descending \in BOOLEAN :
    \E tot \in [cols -> TotalValues] :
        /\ hasTotal \/ \A c \in cols : tot[c] = NaN
        /\ df = Frame(IF descending THEN Reverse(SortedMonths(SeqOf(cols)))
                                    ELSE SortedMonths(SeqOf(cols)),
                      hasTotal, TRUE, [c \in cols |-> Num(1)], [c \in cols |-> NaN], tot,
                      [c \in cols |-> Num(1)])

\* matrices that vary the region and MEMBERSHIP cells; 2024 is history
ValueInputs(df) ==
    \E cols \in ((SUBSET Window) \ {{}}) \cup {WinterWindow} :
    \E hasMembership \in BOOLEAN :
    \E al \in [cols -> CountValues] :
    \E tx \in {NaN, Num(MaxCount - 1)} :
    \E tot \in [cols -> {Num(0), Num(MaxCount)}] :
    \E mem \in [cols -> MembershipValues] :
        /\ \A c \in cols : c[1] < 2025 => tot[c] = Num(MaxCount)
        /\ hasMembership \/ \A c \in cols : mem[c] = NaN
        /\ cols = WinterWindow => hasMembership /\ tx = NaN
        /\ df = Frame(SortedMonths(SeqOf(cols)), TRUE, hasMembership, al,
                      [c \in cols |-> tx], tot, mem)

(***************************************************************************)
(* The forecast stage: main and calculate_forecasts.                       *)
(***************************************************************************)
Init ==
    /\ run = 1
    /\ pc = "start"
    /\ TotalInputs(state_df) \/ ValueInputs(state_df)
    /\ all_months = <<>>
    /\ actual_months = <<>>
    /\ forecast_months = <<>>
    /\ latest_actual = NoMonth
    /\ forecasted_df = NoFrame
    /\ idx = 0
    /\ written = {}
    /\ log = {}
    /\ result = "none"
    /\ output_file = NoFrame
    /\ source_files = <<>>
    /\ state_data = <<>>
    /\ mem_ref = [kind |-> "missing", total |-> <<>>]
    /\ actuals_result = "none"
    /\ scanned = <<>>

Classify ==
    LET c == identify_months_to_forecast(state_df)
    IN /\ all_months' = c.all_months
       /\ actual_months' = c.actual_months
       /\ forecast_months' = c.forecast_months
       /\ latest_actual' = c.latest_actual

\* lines 139-141: every period column becomes numeric, empty cells become 0
Coerced(df, months) ==
    [df EXCEPT !.cells = [r \in df.rows |->
        [c \in DOMAIN df.cells[r] |->
            IF c \in Range(months) /\ c \in Range(df.columns)
            THEN ToNumeric(df.cells[r][c]) ELSE df.cells[r][c]]]]

\* main, lines 448-451: nothing to forecast
MainNoForecast ==
    /\ pc = "start"
    /\ identify_months_to_forecast(state_df).forecast_months = <<>>
    /\ Classify
    /\ pc' = "done"
    /\ result' = "True"
    /\ UNCHANGED <<run, state_df, forecasted_df, idx, written, log, output_file>>
    /\ UNCHANGED aggVars

\* main, lines 452-455: no baseline
MainNoActual ==
    /\ pc = "start"
    /\ identify_months_to_forecast(state_df).forecast_months # <<>>
    /\ identify_months_to_forecast(state_df).latest_actual = NoMonth
    /\ Classify
    /\ pc' = "done"
    /\ result' = "False"
    /\ UNCHANGED <<run, state_df, forecasted_df, idx, written, log, output_file>>
    /\ UNCHANGED aggVars

\* main, line 457, and calculate_forecasts up to its loop
BeginForecasts ==
    /\ pc = "start"
    /\ identify_months_to_forecast(state_df).forecast_months # <<>>
    /\ identify_months_to_forecast(state_df).latest_actual # NoMonth
    /\ Classify
    /\ forecasted_df' = Coerced(state_df, identify_months_to_forecast(state_df).all_months)
    /\ idx' = 1
    /\ pc' = "loop"
    /\ UNCHANGED <<run, state_df, written, log, result, output_file>>
    /\ UNCHANGED aggVars

\* line 145: for forecast_month in sorted(forecast_months)
ToDoDescending == Reverse(SortedMonths(forecast_months))
ToDo == SortedMonths(forecast_months)
InLoop == pc = "loop" /\ idx <= Len(ToDo)
forecast_month == ToDo[idx]

WrittenCells(df, month) ==
    {<<r, month>> : r \in OrdinaryRows(df) \cup (df.rows \cap {"TOTAL"})}

\* line 149
IsSpecialAnyAugust(month) == ParseMonth(month)[2] = ParseMonth(SPECIAL_FORECAST_MONTH)[2]
IsSpecial(month) == month = SPECIAL_FORECAST_MONTH

\* line 223: all(month in all_months for month in required_months)
HasRequiredAny(month, months) == required_months(month) \cap Range(months) # {}
HasRequired(month, months) == required_months(month) \subseteq Range(months)

\* lines 149-156: the new project year month, its reference column missing
SkipSpecialMonth ==
    /\ InLoop
    /\ IsSpecial(forecast_month)
    /\ prev_year_same_month \notin Range(all_months)
    /\ log' = log \cup {<<forecast_month, "special">>, <<forecast_month, "skipping">>}
    /\ idx' = idx + 1
    /\ UNCHANGED <<run, pc, state_df, all_months, actual_months, forecast_months,
                   latest_actual, forecasted_df, written, result, output_file>>
    /\ UNCHANGED aggVars

\* lines 149-208: the new project year month
ForecastSpecialMonth ==
    /\ InLoop
    /\ IsSpecial(forecast_month)
    /\ prev_year_same_month \in Range(all_months)
    /\ log' = log \cup {<<forecast_month, "special">>}
    /\ forecasted_df' = [forecasted_df EXCEPT
                           !.cells = SpecialCells(forecasted_df, forecast_month, latest_actual)]
    /\ written' = written \cup WrittenCells(forecasted_df, forecast_month)
    /\ idx' = idx + 1
    /\ UNCHANGED <<run, pc, state_df, all_months, actual_months, forecast_months,
                   latest_actual, result, output_file>>
    /\ UNCHANGED aggVars

\* lines 209-225: a standard month, one of its reference columns missing
SkipStandardMonth ==
    /\ InLoop
    /\ ~IsSpecial(forecast_month)
    /\ ~HasRequired(forecast_month, all_months)
    /\ log' = log \cup {<<forecast_month, "standard">>, <<forecast_month, "skipping">>}
    /\ idx' = idx + 1
    /\ UNCHANGED <<run, pc, state_df, all_months, actual_months, forecast_months,
                   latest_actual, forecasted_df, written, result, output_file>>
    /\ UNCHANGED aggVars

\* lines 209-273: a standard month
ForecastStandardMonth ==
    /\ InLoop
    /\ ~IsSpecial(forecast_month)
    /\ HasRequired(forecast_month, all_months)
    /\ log' = log \cup {<<forecast_month, "standard">>}
    /\ forecasted_df' = [forecasted_df EXCEPT
                           !.cells = StandardCells(forecasted_df, forecast_month, all_months)]
    /\ written' = written \cup WrittenCells(forecasted_df, forecast_month)
    /\ idx' = idx + 1
    /\ UNCHANGED <<run, pc, state_df, all_months, actual_months, forecast_months,
                   latest_actual, result, output_file>>
    /\ UNCHANGED aggVars

\* lines 274-277: the columns in sorted order
ReorderedAsRead(df) == df
Reordered(df) == [df EXCEPT !.columns = SortedMonths(df.columns)]

\* lines 274-277 and main, lines 459-466: order the columns, write the file
FinishForecasts ==
    /\ pc = "loop"
    /\ idx > Len(ToDo)
    /\ forecasted_df' = Reordered(forecasted_df)
    /\ output_file' = Reordered(forecasted_df)
    /\ result' = "True"
    /\ pc' = "done"
    /\ UNCHANGED <<run, state_df, all_months, actual_months, forecast_months,
                   latest_actual, idx, written, log>>
    /\ UNCHANGED aggVars

\* the forecast stage is run again on the matrix its last run produced
Rerun ==
    /\ pc = "done"
    /\ run < MaxRuns
    /\ result = "True"
    /\ output_file # NoFrame
    /\ run' = run + 1
    /\ state_df' = output_file
    /\ pc' = "start"
    /\ all_months' = <<>>
    /\ actual_months' = <<>>
    /\ forecast_months' = <<>>
    /\ latest_actual' = NoMonth
    /\ forecasted_df' = NoFrame
    /\ idx' = 0
    /\ written' = {}
    /\ log' = {}
    /\ result' = "none"
    /\ UNCHANGED output_file
    /\ UNCHANGED aggVars

Next ==
    \/ MainNoForecast
    \/ MainNoActual
    \/ BeginForecasts
    \/ SkipSpecialMonth
    \/ ForecastSpecialMonth
    \/ SkipStandardMonth
    \/ ForecastStandardMonth
    \/ FinishForecasts
    \/ Rerun

Spec == Init /\ [][Next]_vars

(***************************************************************************)
(* Failures.  main wraps everything in try / except Exception (lines 434   *)
(* and 467-470): whatever is raised is logged and main returns False.      *)
(* input_file may also not exist when main looks for it.                   *)
(***************************************************************************)
\* lines 439-443: os.path.exists(input_file) is False
MainNoInput ==
    /\ pc = "start"
    /\ log' = log \cup {<<NoMonth, "input file not found">>}
    /\ result' = "False"
    /\ pc' = "done"
    /\ UNCHANGED <<run, state_df, all_months, actual_months, forecast_months,
                   latest_actual, forecasted_df, idx, written, output_file>>
    /\ UNCHANGED aggVars

\* lines 445-447 and 467-470: read_summary_file or identify_months_to_forecast raises
ReadRaises ==
    /\ pc = "start"
    /\ log' = log \cup {<<NoMonth, "error">>}
    /\ result' = "False"
    /\ pc' = "done"
    /\ UNCHANGED <<run, state_df, all_months, actual_months, forecast_months,
                   latest_actual, forecasted_df, idx, written, output_file>>
    /\ UNCHANGED aggVars

\* lines 457 and 467-470: calculate_forecasts raises at some forecast month
ComputeRaises ==
    /\ InLoop
    /\ log' = log \cup {<<NoMonth, "error">>}
    /\ result' = "False"
    /\ pc' = "done"
    /\ UNCHANGED <<run, state_df, all_months, actual_months, forecast_months,
                   latest_actual, forecasted_df, idx, written, output_file>>
    /\ UNCHANGED aggVars

\* lines 459, 283-420 and 467-470: write_forecast_excel raises.  The workbook
\* is opened on output_file itself (line 284).  Raised before the with block
\* is entered, or while the workbook is saved to a place that cannot be
\* written, the file stays as it was; raised inside the with block, after
\* df.to_excel (line 287), the ExcelWriter is closed on the way out and saves
\* the workbook as far as it was built: the matrix without its legend.
WriteRaises ==
    /\ pc = "loop"
    /\ idx > Len(ToDo)
    /\ forecasted_df' = Reordered(forecasted_df)
    /\ output_file' \in {output_file, Reordered(forecasted_df)}
    /\ log' = log \cup {<<NoMonth, "error">>}
    /\ result' = "False"
    /\ pc' = "done"
    /\ UNCHANGED <<run, state_df, all_months, actual_months, forecast_months,
                   latest_actual, idx, written>>
    /\ UNCHANGED aggVars

NextFaults ==
    \/ Next
    \/ MainNoInput
    \/ ReadRaises
    \/ ComputeRaises
    \/ WriteRaises

SpecFaults == Init /\ [][NextFaults]_vars

(***************************************************************************)
(* The Aggregator: Run_Actuals.py.  A source file is a record: the index   *)
(* of its directory in root_dirs, the period its name starts with, whether *)
(* pd.read_excel can read it, its column names (each the set of keywords   *)
(* the name contains) and its rows <<state, chart-count cell>>.            *)
(***************************************************************************)
root_dirs == <<"Project2023", "Project2024", "Project2025">>
start_month == <<2023, 0, 8>>
end_month == <<2026, 0, 7>>

\* pd.date_range(start, end, freq="MS") formatted "%Y-%m"
generate_months(start, end) ==
    [i \in 1..(MonthIndex(end) - MonthIndex(start) + 1) |-> LabelOf(MonthIndex(start) + i - 1)]

actuals_all_months == generate_months(start_month, end_month)

\* the name one column gets from standardize_columns
StandardNameChartOrCount(col) ==
    IF "vendor" \in col THEN "Ret_Vendor"
    ELSE IF "chart" \in col \/ "count" \in col THEN "Chartcount"
    ELSE IF "state" \in col THEN "State"
    ELSE "other"
StandardName(col) ==
    IF "vendor" \in col THEN "Ret_Vendor"
    ELSE IF "chart" \in col /\ "count" \in col THEN "Chartcount"
    ELSE IF "state" \in col THEN "State"
    ELSE "other"

standardize_columns(columns) == {StandardName(col) : col \in columns}

\* line 99
HasRequiredColumns(file) ==
    {"Ret_Vendor", "Chartcount", "State"} \subseteq standardize_columns(file.columns)

RECURSIVE GroupSum(_, _)
\* lines 100-101: df.groupby("State")["Chartcount"].sum() for one state
GroupSum(rows, state) ==
    IF rows = <<>> THEN 0
    ELSE (IF Head(rows)[1] = state THEN ToNumeric(Head(rows)[2])[2] ELSE 0)
         + GroupSum(Tail(rows), state)

StatesOf(rows) == {rows[i][1] : i \in 1..Len(rows)}

\* lines 102-103: state_data[state][month] = count, for every state of the file
StoreCounts(data, file) ==
    [s \in DOMAIN data \cup StatesOf(file.rows) |->
        [m \in Range(actuals_all_months) |->
            IF m = file.month /\ s \in StatesOf(file.rows)
            THEN Num(GroupSum(file.rows, s))
            ELSE IF s \in DOMAIN data THEN data[s][m] ELSE NaN]]

\* lines 117-131: the MEMBERSHIP row, zero everywhere when the reference is
\* missing or cannot be loaded
membership_row(ref) ==
    [m \in Range(actuals_all_months) |->
        IF ref.kind = "present"
        THEN IF m \in DOMAIN ref.total THEN ref.total[m] ELSE NaN
        ELSE Num(0)]

\* line 164: the sum of the numeric cells of a month
Totals(data, m) == Num(SumColumn(data, DOMAIN data, m))

\* lines 113 and 164-171: the rows of final_df
final_df(data, ref) ==
    [columns |-> actuals_all_months,
     rows |-> DOMAIN data \cup {"TOTAL", "MEMBERSHIP"},
     cells |-> [r \in DOMAIN data \cup {"TOTAL", "MEMBERSHIP"} |->
                  [m \in Range(actuals_all_months) |->
                      IF r = "TOTAL" THEN Totals(data, m)
                      ELSE IF r = "MEMBERSHIP" THEN membership_row(ref)[m]
                      ELSE IF pd_isna(data[r][m]) THEN Blank ELSE data[r][m]]]]

\* lines 187-203 and read_summary_file: an empty or "" cell is written blank
\* and read back as NaN
ThroughExcel(df) ==
    [df EXCEPT !.cells = [r \in df.rows |->
        [m \in DOMAIN df.cells[r] |->
            IF df.cells[r][m][1] = "num" THEN df.cells[r][m] ELSE NaN]]]

\* lines 91-104: a readable file with the required columns
ProcessFile ==
    /\ pc = "scan"
    /\ source_files # <<>>
    /\ Head(source_files).readable
    /\ HasRequiredColumns(Head(source_files))
    /\ state_data' = StoreCounts(state_data, Head(source_files))
    /\ source_files' = Tail(source_files)
    /\ scanned' = Append(scanned, Head(source_files))
    /\ UNCHANGED <<run, pc, state_df, all_months, actual_months, forecast_months,
                   latest_actual, forecasted_df, idx, written, log, result, output_file,
                   mem_ref, actuals_result>>

\* lines 105-108: required columns missing, or the file cannot be read
SkipFile ==
    /\ pc = "scan"
    /\ source_files # <<>>
    /\ ~Head(source_files).readable \/ ~HasRequiredColumns(Head(source_files))
    /\ source_files' = Tail(source_files)
    /\ scanned' = Append(scanned, Head(source_files))
    /\ UNCHANGED <<run, pc, state_df, all_months, actual_months, forecast_months,
                   latest_actual, forecasted_df, idx, written, log, result, output_file,
                   state_data, mem_ref, actuals_result>>

\* lines 112-232: the actuals artifact is written; the forecast stage reads it.
\* The listing ends with the Aggregator's process.
WriteActuals ==
    /\ pc = "scan"
    /\ source_files = <<>>
    /\ state_df' = ThroughExcel(final_df(state_data, mem_ref))
    /\ actuals_result' = "True"
    /\ scanned' = <<>>
    /\ pc' = "start"
    /\ UNCHANGED <<run, all_months, actual_months, forecast_months,
                   latest_actual, forecasted_df, idx, written, log, result, output_file,
                   source_files, state_data, mem_ref>>

(***************************************************************************)
(* Source corpora: at most MaxFiles files for two periods, listed folder   *)
(* by folder in root_dirs order and in any order within a folder.          *)
(***************************************************************************)
FileMonths == {<<2024, 0, 8>>, <<2024, 0, 9>>}
GoodColumns == {{"vendor"}, {"chart", "count"}, {"state"}}
BadColumns == {{"vendor"}, {"chart"}, {"state"}}
FileContents ==
    {[readable |-> TRUE, columns |-> GoodColumns,
      rows |-> <<<<"AL", Num(1)>>, <<"AL", Num(MaxCount - 1)>>, <<"TX", Num(1)>>>>],
     [readable |-> TRUE, columns |-> GoodColumns,
      rows |-> <<<<"AL", Num(1)>>, <<"TX", NaN>>>>],
     [readable |-> TRUE, columns |-> BadColumns,
      rows |-> <<<<"AL", Num(MaxCount)>>>>],
     [readable |-> FALSE, columns |-> {}, rows |-> <<>>]}

SourceFiles ==
    {[folder |-> f, month |-> m, readable |-> c.readable, columns |-> c.columns, rows |-> c.rows] :
        f \in 1..Len(root_dirs), m \in FileMonths, c \in FileContents}

MembershipReferences ==
    {[kind |-> "missing", total |-> <<>>],
     [kind |-> "unreadable", total |-> <<>>],
     [kind |-> "present",
      total |-> (<<2024, 0, 8>> :> Num(1)) @@ (<<2024, 0, 9>> :> Num(MaxMembership))],
     [kind |-> "present",
      total |-> [m \in Range(actuals_all_months) |-> Num(MaxMembership)]]}

InitPipeline ==
    /\ run = 1
    /\ pc = "scan"
    /\ \E n \in 0..MaxFiles : \E files \in [1..n -> SourceFiles] :
         /\ \A i \in 1..n : \A j \in 1..n : i < j => files[i].folder <= files[j].folder
         /\ source_files = files
    /\ state_data = <<>>
    /\ mem_ref \in MembershipReferences
    /\ actuals_result = "none"
    /\ scanned = <<>>
    /\ state_df = NoFrame
    /\ all_months = <<>>
    /\ actual_months = <<>>
    /\ forecast_months = <<>>
    /\ latest_actual = NoMonth
    /\ forecasted_df = NoFrame
    /\ idx = 0
    /\ written = {}
    /\ log = {}
    /\ result = "none"
    /\ output_file = NoFrame

\* with at most MaxFiles source files some period of the range has no data, so
\* the forecast stage never finds nothing to forecast; 2024-08 is a column of
\* the range, so the new project year month is never skipped
NextPipeline ==
    \/ ProcessFile
    \/ SkipFile
    \/ WriteActuals
    \/ MainNoActual
    \/ BeginForecasts
    \/ ForecastSpecialMonth
    \/ SkipStandardMonth
    \/ ForecastStandardMonth
    \/ FinishForecasts

SpecPipeline == InitPipeline /\ [][NextPipeline]_vars

(***************************************************************************)
(* Vocabulary of the properties, stated on calendar months rather than on  *)
(* the code's strings.                                                     *)
(***************************************************************************)
Val(v) == IF v[1] = "num" THEN v[2] ELSE 0
Absent(v) == v[1] # "num"
MinusMonths(label, k) == LabelOf(MonthIndex(label) - k)
Chronological(seq) ==
    \A i \in 1..Len(seq) : \A j \in 1..Len(seq) : i < j => MonthIndex(seq[i]) < MonthIndex(seq[j])
Boundary == LabelOf(2025 * 12 + 7)

\* the integer nearest to n / d (n >= 0, d > 0), a tie going to the even one
NearestInt(n, d) ==
    CHOOSE k \in 0..(n \div d + 1) :
        LET gap == IF k * d >= n THEN k * d - n ELSE n - k * d
        IN 2 * gap < d \/ (2 * gap = d /\ k % 2 = 0)

Columns == Range(state_df.columns)
TotalMissingBlankOrZero(m) ==
    "TOTAL" \notin state_df.rows \/ state_df.cells["TOTAL"][m] \in {NaN, Blank, Num(0)}
ToForecast == {m \in Columns : TotalMissingBlankOrZero(m)}
Actual == Columns \ ToForecast
LastActual == CHOOSE m \in Actual : \A n \in Actual : MonthIndex(n) <= MonthIndex(m)

Classified == pc # "start"
Computed == pc = "done" /\ forecasted_df # NoFrame
Needed(P) == IF P = Boundary THEN {MinusMonths(P, 12)}
             ELSE {MinusMonths(P, 1), MinusMonths(P, 12), MinusMonths(P, 13)}
Eligible(P) == P \in Range(forecast_months) /\ Needed(P) \subseteq Columns

\* the MEMBERSHIP quotient of periods p and q as read from the input matrix
ClaimRatio(p, q) ==
    IF "MEMBERSHIP" \in state_df.rows /\ Val(state_df.cells["MEMBERSHIP"][q]) # 0
    THEN <<Val(state_df.cells["MEMBERSHIP"][p]), Val(state_df.cells["MEMBERSHIP"][q])>>
    ELSE <<1, 1>>

\* round(max(0, region[prev] + (region[sameMonthLastYear] - region[prevOfLastYear]) * ratio))
ClaimStandard(r, P) ==
    LET ratio == ClaimRatio(MinusMonths(P, 1), MinusMonths(P, 12))
        prev == Val(forecasted_df.cells[r][MinusMonths(P, 1)])
        same == Val(forecasted_df.cells[r][MinusMonths(P, 12)])
        before == Val(forecasted_df.cells[r][MinusMonths(P, 13)])
    IN NearestInt(Max0(prev * ratio[2] + (same - before) * ratio[1]), ratio[2])

\* round(max(0, region[P - 12 months] * membership_adjustment))
ClaimSpecial(r, P) ==
    LET ratio == ClaimRatio(LastActual, MinusMonths(P, 12))
    IN NearestInt(Max0(Val(forecasted_df.cells[r][MinusMonths(P, 12)]) * ratio[1]), ratio[2])

(***************************************************************************)
(* C1: identify_months_to_forecast partitions the period columns by the    *)
(* TOTAL row: forecast_periods are exactly the periods whose TOTAL cell is *)
(* missing, blank or zero, actual_periods the others, both chronological,  *)
(* and latest_actual is the last actual period.  Stated for every matrix,  *)
(* the TOTAL row itself being missing included.                            *)
(***************************************************************************)
C1_ClassifierPartitions ==
    Classified =>
        /\ Range(forecast_months) = ToForecast
        /\ Range(actual_months) = Actual
        /\ Chronological(forecast_months)
        /\ Chronological(actual_months)
        /\ Len(forecast_months) + Len(actual_months) = Len(state_df.columns)
        /\ latest_actual = IF Actual = {} THEN NoMonth ELSE LastActual

\* the same partition for the matrices that have a TOTAL row
C1_ClassifierPartitionsGivenTotalRow ==
    (Classified /\ "TOTAL" \in state_df.rows) =>
        /\ Range(forecast_months) = ToForecast
        /\ Range(actual_months) = Actual
        /\ Chronological(forecast_months)
        /\ Chronological(actual_months)
        /\ Len(forecast_months) + Len(actual_months) = Len(state_df.columns)
        /\ latest_actual = IF Actual = {} THEN NoMonth ELSE LastActual

(***************************************************************************)
(* C2: when the matrix has no actual period (no period with a present,     *)
(* non-zero TOTAL, a missing TOTAL row included), main returns False and   *)
(* computes and writes no forecast.                                        *)
(***************************************************************************)
C2_NoBaselineAborts ==
    (pc = "done" /\ Actual = {}) =>
        /\ result = "False"
        /\ forecasted_df = NoFrame
        /\ written = {}
        /\ run = 1 => output_file = NoFrame

\* the same for the matrices that have a TOTAL row
C2_NoBaselineAbortsGivenTotalRow ==
    (pc = "done" /\ Actual = {} /\ "TOTAL" \in state_df.rows) =>
        /\ result = "False"
        /\ forecasted_df = NoFrame
        /\ written = {}
        /\ run = 1 => output_file = NoFrame

(***************************************************************************)
(* C3: for every forecast period other than the boundary period whose      *)
(* three reference periods P-1, P-12, P-13 are columns, every ordinary     *)
(* region gets round(max(0, region[P-1] + (region[P-12] - region[P-13]) *  *)
(* ratio)), ratio being MEMBERSHIP[P-1] / MEMBERSHIP[P-12] when that       *)
(* denominator is present and non-zero and 1 otherwise; 100, 120, 100 with *)
(* membership 1000 and 900 gives 122.                                      *)
(***************************************************************************)
C3_StandardFormula ==
    /\ StandardValue(Num(100), Num(120), Num(100), <<1000, 900>>) = 122
    /\ Computed =>
         \A P \in Range(forecast_months) :
             (P # Boundary /\ Eligible(P)) =>
                 \A r \in OrdinaryRows(state_df) :
                     forecasted_df.cells[r][P] = Num(ClaimStandard(r, P))

\* a standard forecast that applied a membership ratio other than 1 to a change
C3_Witness ==
    /\ Computed
    /\ \E P \in Range(forecast_months) :
         /\ P # Boundary /\ Eligible(P)
         /\ ClaimRatio(MinusMonths(P, 1), MinusMonths(P, 12)) = <<1, 2>>
         /\ \E r \in OrdinaryRows(state_df) :
              /\ Val(forecasted_df.cells[r][MinusMonths(P, 12)])
                   - Val(forecasted_df.cells[r][MinusMonths(P, 13)]) = 2
              /\ Val(forecasted_df.cells[r][MinusMonths(P, 1)]) = 1
              /\ forecasted_df.cells[r][P] = Num(2)

(***************************************************************************)
(* C4: the new-cycle policy is applied to the boundary period 2025-08 and  *)
(* to no other period; there every ordinary region gets                    *)
(* round(max(0, region[P-12] * adjustment)), adjustment being              *)
(* MEMBERSHIP[latest_actual] / MEMBERSHIP[P-12] when that denominator is   *)
(* present and non-zero and 1 otherwise; 200 with membership 1100 and 1000 *)
(* gives 220.                                                              *)
(***************************************************************************)
C4_NewCycleFormula ==
    /\ SpecialValue(Num(200), <<1100, 1000>>) = 220
    /\ \A e \in log : (e[2] = "special" => e[1] = Boundary)
    /\ \A e \in log : (e[2] = "standard" => e[1] # Boundary)
    /\ Computed =>
         /\ (Boundary \in Range(forecast_months) => <<Boundary, "special">> \in log)
         /\ Eligible(Boundary) =>
              \A r \in OrdinaryRows(state_df) :
                  forecasted_df.cells[r][Boundary] = Num(ClaimSpecial(r, Boundary))

\* a boundary forecast scaled by a membership quotient of 2
C4_Witness ==
    /\ Computed
    /\ Eligible(Boundary)
    /\ ClaimRatio(LastActual, MinusMonths(Boundary, 12)) = <<2, 1>>
    /\ \E r \in OrdinaryRows(state_df) :
         /\ Val(forecasted_df.cells[r][MinusMonths(Boundary, 12)]) = 1
         /\ forecasted_df.cells[r][Boundary] = Num(2)

\* a reference cell of region r that is empty in the input and is read as it is
AbsentReference(r, P) ==
    \E k \in {1, 12, 13} :
        /\ Absent(state_df.cells[r][MinusMonths(P, k)])
        /\ <<r, MinusMonths(P, k)>> \notin written

MissingCellRead(r, P) ==
    \/ \E m \in Needed(P) : Absent(state_df.cells[r][m]) /\ <<r, m>> \notin written
    \/ /\ "MEMBERSHIP" \in state_df.rows
       /\ \E m \in {MinusMonths(P, 12), IF P = Boundary THEN LastActual ELSE MinusMonths(P, 1)} :
              Absent(state_df.cells["MEMBERSHIP"][m])

C7_MissingReferencePeriodSkips ==
    Computed =>
        /\ result = "True"
        /\ \A P \in Range(forecast_months) :
               IF Needed(P) \subseteq Columns
               THEN /\ <<P, "skipping">> \notin log
                    /\ \A r \in OrdinaryRows(state_df) \cup {"TOTAL"} : <<r, P>> \in written
               ELSE /\ <<P, "skipping">> \in log
                    /\ \A r \in state_df.rows :
                           /\ <<r, P>> \notin written
                           /\ Val(forecasted_df.cells[r][P]) = Val(state_df.cells[r][P])

\* one period skipped for want of P-13, another forecast in the same run
C7_Witness ==
    /\ Computed
    /\ \E P \in Range(forecast_months) :
         /\ MinusMonths(P, 1) \in Columns
         /\ MinusMonths(P, 13) \notin Columns
         /\ <<P, "skipping">> \in log
         /\ <<"AL", P>> \notin written
    /\ \E Q \in Range(forecast_months) : <<"AL", Q>> \in written /\ <<"TOTAL", Q>> \in written

RECURSIVE RegionSum(_, _, _)
RegionSum(df, regions, m) ==
    IF regions = {} THEN 0
    ELSE LET r == CHOOSE x \in regions : TRUE
         IN Val(df.cells[r][m]) + RegionSum(df, regions \ {r}, m)

TotalIsSum(df, m) ==
    /\ "TOTAL" \in df.rows
    /\ Val(df.cells["TOTAL"][m]) = RegionSum(df, df.rows \ {"TOTAL", "MEMBERSHIP"}, m)

(***************************************************************************)
(* C8: in the output of the pipeline (Aggregator, then Forecast Engine),   *)
(* for every period, actual, forecast or skipped, TOTAL[period] is exactly *)
(* the sum of the ordinary regions' values for that period, and during     *)
(* forecasting the equality is restored for a forecast period before the   *)
(* next one is processed.                                                  *)
(***************************************************************************)
C8_TotalIsSumOfRegions ==
    /\ pc \in {"loop", "done"} /\ forecasted_df # NoFrame =>
           \A m \in Range(forecasted_df.columns) : TotalIsSum(forecasted_df, m)
    /\ output_file # NoFrame =>
           /\ Range(output_file.columns) = Range(actuals_all_months)
           /\ \A m \in Range(output_file.columns) : TotalIsSum(output_file, m)

\* an output with an actual, a forecast and a skipped period, two regions
C8_Witness ==
    /\ output_file # NoFrame
    /\ {"AL", "TX"} \subseteq output_file.rows
    /\ \E a \in Range(actual_months) : Val(output_file.cells["TOTAL"][a]) = MaxCount + 1
    /\ \E P \in Range(forecast_months) :
         /\ <<"TOTAL", P>> \in written
         /\ Val(output_file.cells["TOTAL"][P]) > Val(output_file.cells["AL"][P])
         /\ Val(output_file.cells["AL"][P]) > 0
    /\ \E Q \in Range(forecast_months) : <<Q, "skipping">> \in log

(***************************************************************************)
(* C9: re-running the forecast stage on the matrix a completed run         *)
(* produced classifies every period as actual and changes no cell: the     *)
(* second output equals the first.                                         *)
(***************************************************************************)
C9_RerunChangesNothing ==
    (run = 2 /\ pc = "done") =>
        /\ forecast_months = <<>>
        /\ Range(actual_months) = Columns
        /\ written = {}
        /\ output_file = state_df

(***************************************************************************)
(* C9 as amended: on the matrix a completed run produced, the second run   *)
(* classifies as actual exactly the periods whose TOTAL is non-zero there  *)
(* (a period the first run skipped or forecast to a zero TOTAL is to be    *)
(* forecast again) and leaves every cell of those periods as it is; when   *)
(* every period has a non-zero TOTAL the second run writes nothing and the *)
(* output stays equal to the first.                                        *)
(***************************************************************************)
C9_RerunKeepsForecastPeriods ==
    (run = 2 /\ pc = "done") =>
        /\ Range(actual_months) = {m \in Columns : Val(state_df.cells["TOTAL"][m]) # 0}
        /\ Range(forecast_months) = {m \in Columns : Val(state_df.cells["TOTAL"][m]) = 0}
        /\ result = "True"
        /\ \A m \in Range(actual_months) : \A r \in state_df.rows :
               /\ <<r, m>> \notin written
               /\ output_file.cells[r][m] = state_df.cells[r][m]
        /\ forecast_months = <<>> => written = {} /\ output_file = state_df

\* a second run that finds every period forecast to a non-zero TOTAL
C9_Witness ==
    /\ run = 2
    /\ pc = "done"
    /\ forecast_months = <<>>
    /\ \E m \in Columns : \E n \in Columns : m # n /\ MonthIndex(n) > MonthIndex(Boundary)
    /\ output_file = state_df

(***************************************************************************)
(* C10: no cell the forecast engine writes is negative: under both         *)
(* policies a computed value below zero is written as 0, and every         *)
(* recomputed TOTAL of a forecast period is non-negative.                  *)
(***************************************************************************)
C10_NoNegativeForecast ==
    forecasted_df # NoFrame =>
        \A w \in written :
            /\ forecasted_df.cells[w[1]][w[2]][1] = "num"
            /\ forecasted_df.cells[w[1]][w[2]][2] >= 0

\* a standard forecast whose unclamped value is negative, written as 0
C10_Witness ==
    /\ Computed
    /\ \E P \in Range(forecast_months) :
         /\ P # Boundary /\ Eligible(P)
         /\ \E r \in OrdinaryRows(state_df) :
              LET ratio == ClaimRatio(MinusMonths(P, 1), MinusMonths(P, 12))
              IN /\ Val(forecasted_df.cells[r][MinusMonths(P, 1)]) * ratio[2]
                      + (Val(forecasted_df.cells[r][MinusMonths(P, 12)])
                           - Val(forecasted_df.cells[r][MinusMonths(P, 13)])) * ratio[1] < 0
                 /\ forecasted_df.cells[r][P] = Num(0)
                 /\ <<r, P>> \in written

(***************************************************************************)
(* Vocabulary of the Aggregator's properties.                              *)
(***************************************************************************)
\* a file that can be read and has a vendor, a chart-count and a region column
WellFormed(file) ==
    /\ file.readable
    /\ \E c \in file.columns : "vendor" \in c
    /\ \E c \in file.columns : "chart" \in c /\ "count" \in c
    /\ \E c \in file.columns : "state" \in c

RECURSIVE MeasureOf(_, _)
\* the chart-count measure of region r summed over the rows of one file
MeasureOf(rows, r) ==
    IF rows = <<>> THEN 0
    ELSE (IF Head(rows)[1] = r THEN Val(Head(rows)[2]) ELSE 0) + MeasureOf(Tail(rows), r)

RECURSIVE CorpusSum(_, _, _)
\* the measure of region r summed over the well-formed files of period m
CorpusSum(files, r, m) ==
    IF files = <<>> THEN 0
    ELSE (IF WellFormed(Head(files)) /\ Head(files).month = m
          THEN MeasureOf(Head(files).rows, r) ELSE 0)
         + CorpusSum(Tail(files), r, m)

\* the step in which the Aggregator emits its artifact
Emits == pc = "scan" /\ pc' = "start"

\* the positions in the listing of the well-formed files of period m naming region r
FilesOf(files, r, m) ==
    {i \in 1..Len(files) : /\ WellFormed(files[i])
                            /\ files[i].month = m
                            /\ r \in StatesOf(files[i].rows)}

(***************************************************************************)
(* C11: for every region and period, the cell the Aggregator emits equals  *)
(* the sum of the region's chart-count measure over all well-formed source *)
(* files of that period, across directories and files sharing the period   *)
(* prefix, whatever the order in which the files are processed.            *)
(***************************************************************************)
C11_CellIsSumOverFiles ==
    [][Emits =>
         \A r \in OrdinaryRows(state_df') : \A m \in Range(state_df'.columns) :
             Val(state_df'.cells[r][m]) = CorpusSum(scanned, r, m)]_vars

\* what the Aggregator emits instead: the measure of the file listed last among
\* the well-formed files of the period that name the region
C11_CellIsLastFileCount ==
    [][Emits =>
         \A r \in OrdinaryRows(state_df') : \A m \in Range(state_df'.columns) :
             LET at == FilesOf(scanned, r, m)
             IN IF at = {} THEN Absent(state_df'.cells[r][m])
                ELSE LET last == CHOOSE i \in at : \A j \in at : j <= i
                     IN state_df'.cells[r][m] = Num(MeasureOf(scanned[last].rows, r))]_vars

\* the periods of the Aggregator's configured range, 2023-08 to 2026-07
ConfiguredRange == {LabelOf(i) : i \in (2023 * 12 + 7)..(2026 * 12 + 6)}

\* the forecast of region r for period P when the ratio or adjustment is 1.0
UnscaledForecast(r, P) ==
    IF P = Boundary
    THEN Max0(Val(forecasted_df.cells[r][MinusMonths(P, 12)]))
    ELSE Max0(Val(forecasted_df.cells[r][MinusMonths(P, 1)])
              + Val(forecasted_df.cells[r][MinusMonths(P, 12)])
              - Val(forecasted_df.cells[r][MinusMonths(P, 13)]))

(***************************************************************************)
(* C12: when the membership reference is absent or unreadable the          *)
(* Aggregator does not abort: it emits a MEMBERSHIP row that is zero in    *)
(* every period of the configured range, and the forecast run on that      *)
(* artifact computes every forecast with a ratio or adjustment of 1.0.     *)
(***************************************************************************)
C12_NoReferenceGivesZeroRowAndUnitRatio ==
    (mem_ref.kind # "present" /\ pc # "scan") =>
        /\ actuals_result = "True"
        /\ Range(state_df.columns) = ConfiguredRange
        /\ "MEMBERSHIP" \in state_df.rows
        /\ \A m \in ConfiguredRange : state_df.cells["MEMBERSHIP"][m] = Num(0)
        /\ \A w \in written :
               w[1] \notin {"TOTAL", "MEMBERSHIP"} =>
                   forecasted_df.cells[w[1]][w[2]] = Num(UnscaledForecast(w[1], w[2]))

\* an unreadable reference, and a forecast run that wrote a boundary-period value
\* and a standard value whose year-over-year change is not zero
C12_Witness ==
    /\ mem_ref.kind = "unreadable"
    /\ pc = "done"
    /\ result = "True"
    /\ <<"AL", Boundary>> \in written
    /\ Val(forecasted_df.cells["AL"][Boundary]) > 0
    /\ \E P \in Range(forecast_months) :
         /\ P # Boundary
         /\ <<"AL", P>> \in written
         /\ Val(forecasted_df.cells["AL"][MinusMonths(P, 12)])
              # Val(forecasted_df.cells["AL"][MinusMonths(P, 13)])
         /\ Val(forecasted_df.cells["AL"][P]) > 0

\* the step in which main returns False
ReturnsFalse == result = "none" /\ result' = "False"

(***************************************************************************)
(* C13: any unexpected failure raised while the forecast stage reads,      *)
(* classifies, computes or writes is caught and surfaced as main returning *)
(* False, and the forecast artifact written before is left as it was; a    *)
(* missing input artifact likewise yields False with no output written.    *)
(***************************************************************************)
C13_FailureLeavesArtifact ==
    [][ReturnsFalse => output_file' = output_file]_vars

\* the part that holds: a run that returns False before write_forecast_excel
\* is called leaves the artifact as it was
C13_FailureBeforeWriteLeavesArtifact ==
    [][(ReturnsFalse /\ ~(pc = "loop" /\ idx > Len(ToDo))) => output_file' = output_file]_vars

\* a readable file without a vendor, a chart-count or a region column
LacksColumn(file) == file.readable /\ ~WellFormed(file)

(***************************************************************************)
(* C14: a source file that lacks an identifiable vendor, chart-count or    *)
(* region column is skipped: processing it changes no cell of the matrix   *)
(* being built, the Aggregator goes on with the remaining files, and the   *)
(* run still succeeds.                                                     *)
(***************************************************************************)
C14_MalformedFileIsSkipped ==
    /\ [][(pc = "scan" /\ source_files # <<>> /\ LacksColumn(Head(source_files))) =>
             /\ state_data' = state_data
             /\ source_files' = Tail(source_files)
             /\ pc' = "scan"
             /\ actuals_result' = "none"]_vars
    /\ [](pc # "scan" => actuals_result = "True")

\* a file with rows but no chart-count column was listed first and left the
\* matrix empty; the well-formed file listed after it has been counted
C14_Witness ==
    /\ pc = "scan"
    /\ Len(scanned) = 2
    /\ LacksColumn(scanned[1])
    /\ scanned[1].rows # <<>>
    /\ WellFormed(scanned[2])
    /\ DOMAIN state_data = StatesOf(scanned[2].rows)
    /\ \A r \in DOMAIN state_data :
         /\ state_data[r][scanned[2].month] = Num(MeasureOf(scanned[2].rows, r))
         /\ scanned[1].month # scanned[2].month => Absent(state_data[r][scanned[1].month])

(***************************************************************************)
(* C15: after calculate_forecasts the output's columns are the region      *)
(* column followed by exactly the input's period columns plus any forecast *)
(* column created in the run, each once, in chronological order: no period *)
(* column is lost, duplicated or out of chronological sequence.            *)
(***************************************************************************)
C15_ColumnsKeptAndChronological ==
    Computed =>
        /\ Range(forecasted_df.columns) = Columns \cup Range(forecast_months)
        /\ Len(forecasted_df.columns) = Cardinality(Columns \cup Range(forecast_months))
        /\ Chronological(forecasted_df.columns)
        /\ output_file.columns = forecasted_df.columns
        /\ \A r \in forecasted_df.rows :
               DOMAIN forecasted_df.cells[r] = Range(forecasted_df.columns)

\* an input whose period columns are not in chronological order has been forecast
C15_Witness ==
    /\ Computed
    /\ Len(state_df.columns) >= 3
    /\ ~Chronological(state_df.columns)
    /\ written # {}
    /\ Chronological(forecasted_df.columns)

\* the forecast run is inside calculate_forecasts or has completed it
Computing == pc \in {"loop", "done"} /\ forecasted_df # NoFrame

\* the periods the loop of calculate_forecasts has gone through
Processed == {e[1] : e \in log}

(***************************************************************************)
(* C16: forecast periods are processed in strictly increasing              *)
(* chronological order and every reference period of P is strictly earlier *)
(* than P; hence when the standard policy computes P and prev(P) was       *)
(* itself forecast earlier in the same run, the region[prev] it reads is   *)
(* the value that run wrote for prev, never the cell as it was before.     *)
(***************************************************************************)
C16_EarlierForecastsFeedLaterOnes ==
    Computing =>
        /\ Chronological(ToDo)
        /\ Processed = {ToDo[k] : k \in 1..(idx - 1)}
        /\ \A P \in Range(forecast_months) :
               /\ \A q \in required_months(P) : MonthIndex(q) < MonthIndex(P)
               /\ IsSpecial(P) => MonthIndex(prev_year_same_month) < MonthIndex(P)
        /\ \A w \in written :
               (/\ w[1] \notin {"TOTAL", "MEMBERSHIP"}
                /\ w[2] # Boundary
                /\ <<w[1], MinusMonths(w[2], 1)>> \in written)
               => forecasted_df.cells[w[1]][w[2]] = Num(ClaimStandard(w[1], w[2]))

\* a forecast was computed from the value the run wrote for the month before,
\* where the input had an empty or zero cell, and with that cell read as zero
\* the formula would have given another forecast
C16_Witness ==
    /\ Computed
    /\ \E P \in Range(forecast_months) : \E r \in OrdinaryRows(state_df) :
         LET ratio == ClaimRatio(MinusMonths(P, 1), MinusMonths(P, 12))
             change == Val(forecasted_df.cells[r][MinusMonths(P, 12)])
                       - Val(forecasted_df.cells[r][MinusMonths(P, 13)])
         IN /\ P # Boundary
            /\ <<r, P>> \in written
            /\ <<r, MinusMonths(P, 1)>> \in written
            /\ Val(state_df.cells[r][MinusMonths(P, 1)]) = 0
            /\ Val(forecasted_df.cells[r][MinusMonths(P, 1)]) > 0
            /\ forecasted_df.cells[r][P] # Num(NearestInt(Max0(change * ratio[1]), ratio[2]))

(***************************************************************************)
(* C17: the forecast engine writes only region and TOTAL cells of periods  *)
(* classified to_forecast: the numeric value of every cell of an actual    *)
(* period and of every MEMBERSHIP cell is the same in the output as in the *)
(* input (an absent cell counting as zero), and the input matrix passed to *)
(* calculate_forecasts is itself not mutated.                              *)
(***************************************************************************)
C17_OnlyForecastCellsWritten ==
    /\ [](Computed =>
            /\ \A w \in written :
                   w[1] # "MEMBERSHIP" /\ w[2] \in Range(forecast_months)
            /\ output_file.rows = state_df.rows
            /\ \A r \in state_df.rows : \A m \in Columns :
                   (m \in Range(actual_months) \/ r = "MEMBERSHIP" \/ <<r, m>> \notin written)
                   => Val(output_file.cells[r][m]) = Val(state_df.cells[r][m]))
    /\ [][(pc \in {"start", "loop"} /\ run' = run) => state_df' = state_df]_vars

\* a run that forecast a period, on an input with an empty region cell in an
\* actual period and an empty MEMBERSHIP cell in the forecast period
C17_Witness ==
    /\ Computed
    /\ "MEMBERSHIP" \in state_df.rows
    /\ \E P \in Range(forecast_months) :
         /\ <<"AL", P>> \in written
         /\ <<"TOTAL", P>> \in written
         /\ Val(output_file.cells["AL"][P]) # Val(state_df.cells["AL"][P])
         /\ Val(output_file.cells["TOTAL"][P]) # Val(state_df.cells["TOTAL"][P])
         /\ Absent(state_df.cells["MEMBERSHIP"][P])
    /\ \E m \in Range(actual_months) :
         /\ Absent(state_df.cells["TX"][m])
         /\ Val(state_df.cells["AL"][m]) > 0

\* MEMBERSHIP[q] is present and non-zero while MEMBERSHIP[p] is absent or zero
NumeratorMissing(p, q) ==
    /\ "MEMBERSHIP" \in state_df.rows
    /\ Val(state_df.cells["MEMBERSHIP"][q]) # 0
    /\ Val(state_df.cells["MEMBERSHIP"][p]) = 0

(***************************************************************************)
(* C18: when the membership denominator is present and non-zero but the    *)
(* numerator (MEMBERSHIP[prev], or MEMBERSHIP[latest_actual] for the       *)
(* boundary period) is absent or zero, the ratio is 0 and not the default  *)
(* 1.0: the standard forecast is round(max(0, region[prev])) with the      *)
(* year-over-year change dropped, and the boundary-period forecast is 0    *)
(* for every region, so its TOTAL is 0 and a later run classifies the      *)
(* period to_forecast again.                                               *)
(***************************************************************************)
C18_MissingNumeratorGivesZeroRatio ==
    /\ Computed =>
          \A P \in Range(forecast_months) :
              /\ (Eligible(P) /\ P # Boundary
                   /\ NumeratorMissing(MinusMonths(P, 1), MinusMonths(P, 12)))
                  => \A r \in OrdinaryRows(state_df) :
                         forecasted_df.cells[r][P]
                           = Num(Max0(Val(forecasted_df.cells[r][MinusMonths(P, 1)])))
              /\ (Eligible(P) /\ P = Boundary
                   /\ NumeratorMissing(LastActual, MinusMonths(P, 12)))
                  => /\ \A r \in OrdinaryRows(state_df) : forecasted_df.cells[r][P] = Num(0)
                     /\ output_file.cells["TOTAL"][P] = Num(0)
    /\ (run > 1 /\ Classified /\ Boundary \in Columns
         /\ Val(state_df.cells["TOTAL"][Boundary]) = 0)
        => Boundary \in Range(forecast_months)

\* a later run finds the boundary period to forecast again: the run before
\* gave it a TOTAL of 0 although a region had a count twelve months earlier,
\* the membership of the last actual period being empty
C18_Witness ==
    /\ run = 2
    /\ Computed
    /\ Boundary \in Range(forecast_months)
    /\ Eligible(Boundary)
    /\ Actual # {}
    /\ NumeratorMissing(LastActual, MinusMonths(Boundary, 12))
    /\ Val(state_df.cells["AL"][MinusMonths(Boundary, 12)]) > 0
    /\ state_df.cells["TOTAL"][Boundary] = Num(0)
    /\ <<"TOTAL", Boundary>> \in written
    /\ output_file.cells["TOTAL"][Boundary] = Num(0)

\* the standard case of C18 happens too: a forecast equal to region[prev] > 0
\* where the year-over-year change is not zero
C18_StandardCaseReached ==
    /\ Computed
    /\ \E P \in Range(forecast_months) :
         /\ P # Boundary /\ Eligible(P)
         /\ NumeratorMissing(MinusMonths(P, 1), MinusMonths(P, 12))
         /\ \E r \in OrdinaryRows(state_df) :
              /\ Val(forecasted_df.cells[r][MinusMonths(P, 12)])
                   # Val(forecasted_df.cells[r][MinusMonths(P, 13)])
              /\ Val(forecasted_df.cells[r][P]) > 0

====
